---- MODULE Spec2Model ----
(***************************************************************************)
(* Model of mcp-smart-reader: the extraction functions of summarizer.py    *)
(* and the three tools of server.py.  Text is a sequence of one-character  *)
(* strings; offsets are 0-based as in Python, so text[a:b] is              *)
(* Slice(text, a, b).  Optional values are None (<<>>) or Some(x) (<<x>>). *)
(***************************************************************************)
EXTENDS Integers, Sequences, FiniteSets, TLC

VARIABLES pc, call, ret, locals, fs

vars == <<pc, call, ret, locals, fs>>

\* ------------------------------------------------------------------------
\* Bounds of the checked input spaces
\* ------------------------------------------------------------------------
MaxLines == 4
MaxPieces == 4
MaxUnits == 3
MaxBlocks == 3
MaxFields == 3
MaxExcess == 1

\* ------------------------------------------------------------------------
\* Python values and string primitives
\* ------------------------------------------------------------------------
None == <<>>
Some(x) == <<x>>

NoLocals == [none |-> TRUE]

Min(S) == CHOOSE x \in S : \A y \in S : x <= y
Max(S) == CHOOSE x \in S : \A y \in S : x >= y

\* text[i] with a 0-based index
At(text, i) == text[i + 1]

\* text[a:b] for 0 <= a, b (Python clamps b to len(text))
Slice(text, a, b) == SubSeq(text, a + 1, IF b > Len(text) THEN Len(text) ELSE b)

\* characters matched by \s and removed by str.strip()
Whitespace == {" ", "\n", "\t", "\r"}

UpperLetters == <<"A","B","C","D","E","F","G","H","I","J","K","L","M",
                  "N","O","P","Q","R","S","T","U","V","W","X","Y","Z">>
LowerLetters == <<"a","b","c","d","e","f","g","h","i","j","k","l","m",
                  "n","o","p","q","r","s","t","u","v","w","x","y","z">>

LowerChar(c) ==
    IF \E i \in 1..26 : UpperLetters[i] = c
    THEN LowerLetters[CHOOSE i \in 1..26 : UpperLetters[i] = c]
    ELSE c

\* str.lower()
Lower(s) == [i \in 1..Len(s) |-> LowerChar(s[i])]

\* str.strip()
Strip(s) ==
    LET keep == {i \in 1..Len(s) : s[i] \notin Whitespace}
    IN  IF keep = {} THEN <<>> ELSE SubSeq(s, Min(keep), Max(keep))

\* the Python test  p in s
Contains(s, p) ==
    \/ p = <<>>
    \/ \E i \in 1..(Len(s) - Len(p) + 1) :
          s[i] = p[1] /\ SubSeq(s, i, i + Len(p) - 1) = p

\* s.startswith(p, i)
StartsWithAt(s, p, i) ==
    /\ i + Len(p) <= Len(s)
    /\ SubSeq(s, i + 1, i + Len(p)) = p

\* text[:pos].count("\n")
CountNewlines(text, pos) == Cardinality({i \in 0..(pos - 1) : At(text, i) = "\n"})

RECURSIVE Flatten(_)
Flatten(ss) == IF ss = <<>> THEN <<>> ELSE Head(ss) \o Flatten(Tail(ss))

\* sep.join(ss)
RECURSIVE Join(_, _)
Join(ss, sep) ==
    IF ss = <<>> THEN <<>>
    ELSE IF Len(ss) = 1 THEN ss[1]
    ELSE ss[1] \o sep \o Join(Tail(ss), sep)

SeqsUpTo(S, n) == UNION {[1..k -> S] : k \in 0..n}

\* ------------------------------------------------------------------------
\* Heading patterns:  ^(#{1,6})\s+(.+?)$  and  ^#{1,3}\s+(.+)$  (re.MULTILINE)
\* ------------------------------------------------------------------------
\* length of the run of characters of set S starting at offset p
RunLength(text, p, S) ==
    LET stops == {q \in p..Len(text) : q = Len(text) \/ At(text, q) \notin S}
    IN  Min(stops) - p

\* offset where $ matches at or after p: end of text or the next newline
LineEnd(text, p) ==
    Min({q \in p..Len(text) : q = Len(text) \/ At(text, q) = "\n"})

\* ^ in MULTILINE mode
AtLineStart(text, p) == p = 0 \/ At(text, p - 1) = "\n"

\* The ways the pattern can match at offset p: k hashes (1..maxHashes),
\* w >= 1 whitespace characters (\s also matches a newline), then a title of
\* at least one non-newline character that runs to the end of its line.
HeadingParses(text, p, maxHashes) ==
    IF ~(AtLineStart(text, p) /\ p < Len(text) /\ At(text, p) = "#") THEN {}
    ELSE LET hashes == RunLength(text, p, {"#"})
             kmax == IF hashes > maxHashes THEN maxHashes ELSE hashes
         IN  UNION { LET ws == RunLength(text, p + k, Whitespace)
                     IN  { <<k, w>> : w \in { v \in 1..ws :
                                                /\ p + k + v < Len(text)
                                                /\ At(text, p + k + v) # "\n" } }
                     : k \in 1..kmax }

\* The match the regex engine reports at p: quantifiers #{1,n} and \s+ are
\* greedy, so the longest hash run wins, then the longest whitespace run.
HeadingMatchAt(text, p, maxHashes) ==
    LET parses == HeadingParses(text, p, maxHashes)
        k == Max({kw[1] : kw \in parses})
        w == Max({kw[2] : kw \in {x \in parses : x[1] = k}})
        tstart == p + k + w
        tend == LineEnd(text, tstart)
    IN  [start |-> p, hashes |-> k, title |-> Slice(text, tstart, tend), end |-> tend]

\* re.finditer: leftmost match at or after pos, then resume at its end
RECURSIVE FindHeadingsFrom(_, _, _)
FindHeadingsFrom(text, pos, maxHashes) ==
    LET cands == {p \in pos..(Len(text) - 1) : HeadingParses(text, p, maxHashes) # {}}
    IN  IF cands = {} THEN <<>>
        ELSE LET m == HeadingMatchAt(text, Min(cands), maxHashes)
             IN  <<m>> \o FindHeadingsFrom(text, m.end, maxHashes)

\* summarizer.extract_section_headers
extract_section_headers(text) ==
    LET ms == FindHeadingsFrom(text, 0, 3)
    IN  [i \in 1..Len(ms) |-> ms[i].title]

\* ------------------------------------------------------------------------
\* summarizer.extract_section_content
\* ------------------------------------------------------------------------
\* the list comprehension over re.finditer(heading_pattern, text, re.MULTILINE)
headings_of(text) == FindHeadingsFrom(text, 0, 6)

\* FindTarget with the two .lower() calls dropped
RECURSIVE FindTargetCaseSensitive(_, _, _)
FindTargetCaseSensitive(headings, heading, i) ==
    IF i > Len(headings) THEN None
    ELSE IF Contains(headings[i].title, heading) THEN Some(i)
    ELSE FindTargetCaseSensitive(headings, heading, i + 1)

\* the loop "for i, (pos, level, title) in enumerate(headings)" with its break
RECURSIVE FindTarget(_, _, _)
FindTarget(headings, heading, i) ==
    IF i > Len(headings) THEN None
    ELSE IF Contains(Lower(headings[i].title), Lower(heading)) THEN Some(i)
    ELSE FindTarget(headings, heading, i + 1)

\* ClosesSection with < written for <=
ClosesSectionStrict(level, target_level) == level < target_level

\* the comparison that ends a section: len(headings[i][1]) <= target_level
ClosesSection(level, target_level) == level <= target_level

\* the loop "for i in range(target_idx + 1, len(headings))" with its break
RECURSIVE FindEnd(_, _, _, _)
FindEnd(text, headings, target_level, i) ==
    IF i > Len(headings) THEN Len(text)
    ELSE IF ClosesSection(headings[i].hashes, target_level) THEN headings[i].start
    ELSE FindEnd(text, headings, target_level, i + 1)

SectionText(text, start_pos, end_pos) == Strip(Slice(text, start_pos, end_pos))

extract_section_content(text, heading) ==
    LET headings == headings_of(text)
        target_idx == FindTarget(headings, heading, 1)
    IN  IF target_idx = None THEN <<None, None, None, None>>
        ELSE LET t == target_idx[1]
                 start_pos == headings[t].start
                 target_level == headings[t].hashes
                 end_pos == FindEnd(text, headings, target_level, t + 1)
             IN  << Some(SectionText(text, start_pos, end_pos)),
                    Some(target_level),
                    Some(CountNewlines(text, start_pos) + 1),
                    Some(CountNewlines(text, end_pos) + 1) >>

\* ------------------------------------------------------------------------
\* Inputs of the section resolver: documents of up to MaxLines lines
\* ------------------------------------------------------------------------
SectionLines ==
    { <<"#"," ","a">>,
      <<"#","#"," ","A">>,
      <<"#","#"," ","b"," ">>,
      <<"#","#","#"," ","a","b">>,
      <<"b">>,
      <<"#">> }

SectionTargets == { <<"a">>, <<"B">>, <<"a","b">>, <<"z">> }

SectionDocs == {Join(ls, <<"\n">>) : ls \in SeqsUpTo(SectionLines, MaxLines)}

NoFiles == <<>>

SectionCalls ==
    { [op |-> "extract_section_content", text |-> t, heading |-> h] :
        t \in SectionDocs, h \in SectionTargets }

InitSection ==
    /\ pc = "call"
    /\ call \in SectionCalls
    /\ ret = None
    /\ locals = NoLocals
    /\ fs = NoFiles

ExtractSectionContent ==
    /\ pc = "call"
    /\ call.op = "extract_section_content"
    /\ ret' = extract_section_content(call.text, call.heading)
    /\ locals' = [headings |-> headings_of(call.text)]
    /\ pc' = "done"
    /\ UNCHANGED <<call, fs>>

NextSection == ExtractSectionContent

SpecSection == InitSection /\ [][NextSection]_vars

\* ------------------------------------------------------------------------
\* summarizer.extract_keywords_from_abstract
\*   re.search(r"\*\*Keywords:\*\*\s*(.+?)(?:\n|$)", text, re.IGNORECASE)
\* ------------------------------------------------------------------------
KeywordsLabel == <<"*","*","k","e","y","w","o","r","d","s",":","*","*">>

\* the literal of the pattern at offset p, letters compared ignoring case
LabelAt(text, p) ==
    /\ p + Len(KeywordsLabel) <= Len(text)
    /\ Lower(SubSeq(text, p + 1, p + Len(KeywordsLabel))) = KeywordsLabel

\* whitespace counts w that \s* may take after a label at p so that group 1
\* can start: (.+?) needs one character that is not a newline
KeywordParses(text, p) ==
    IF ~LabelAt(text, p) THEN {}
    ELSE LET q == p + Len(KeywordsLabel)
         IN  {w \in 0..RunLength(text, q, Whitespace) :
                /\ q + w < Len(text)
                /\ At(text, q + w) # "\n"}

\* match.group(1): \s* is greedy, (.+?) stops at the first newline or the end
KeywordsGroup(text) ==
    LET cands == {p \in 0..(Len(text) - 1) : KeywordParses(text, p) # {}}
    IN  IF cands = {} THEN None
        ELSE LET p == Min(cands)
                 gstart == p + Len(KeywordsLabel) + Max(KeywordParses(text, p))
             IN  Some(Slice(text, gstart, LineEnd(text, gstart)))

\* str.split(sep) for a one-character separator
RECURSIVE SplitOn(_, _)
SplitOn(s, sep) ==
    LET hits == {i \in 1..Len(s) : s[i] = sep}
    IN  IF hits = {} THEN <<s>>
        ELSE <<SubSeq(s, 1, Min(hits) - 1)>> \o SplitOn(SubSeq(s, Min(hits) + 1, Len(s)), sep)

\* [k.strip() for k in keywords_text.split(",")]
CleanKeywords(keywords_text) ==
    LET fields == SplitOn(keywords_text, ",")
    IN  [i \in 1..Len(fields) |-> Strip(fields[i])]

extract_keywords_from_abstract(text) ==
    LET match == KeywordsGroup(text)
    IN  IF match # None THEN CleanKeywords(match[1]) ELSE <<>>

\* ------------------------------------------------------------------------
\* summarizer.extract_abstract
\*   re.search(r"## Abstract\n\n(.+?)(?=\n## |\n---|\Z)", text, re.DOTALL)
\* ------------------------------------------------------------------------
AbstractMarker == <<"#","#"," ","A","b","s","t","r","a","c","t","\n","\n">>
HeadingStop == <<"\n","#","#"," ">>
RuleStop == <<"\n","-","-","-">>

\* AbstractStopAt without the \n--- alternative
AbstractStopAtNoRule(text, q) ==
    \/ StartsWithAt(text, HeadingStop, q)
    \/ q = Len(text)

\* the lookahead (?=\n## |\n---|\Z) at offset q
AbstractStopAt(text, q) ==
    \/ StartsWithAt(text, HeadingStop, q)
    \/ StartsWithAt(text, RuleStop, q)
    \/ q = Len(text)

\* (.+?) with DOTALL started at q: the group grows one character at a time
\* and ends at the first offset where the lookahead holds
LazyEnd(text, q) == Min({e \in q..Len(text) : AbstractStopAt(text, e)})

\* match.group(1) of the leftmost match: the marker needs one character after it
AbstractGroup(text) ==
    LET cands == {p \in 0..(Len(text) - Len(AbstractMarker) - 1) :
                     StartsWithAt(text, AbstractMarker, p)}
    IN  IF cands = {} THEN None
        ELSE LET b == Min(cands) + Len(AbstractMarker)
             IN  Some(Slice(text, b, LazyEnd(text, b + 1)))

extract_abstract(text) ==
    LET match == AbstractGroup(text)
    IN  IF match # None THEN Strip(match[1]) ELSE <<>>

\* ------------------------------------------------------------------------
\* Keyword extractor: inputs, specification and claim
\* ------------------------------------------------------------------------
KeywordFields == { <<"a">>, <<" ","b">>, <<"c"," ">>, <<>>, <<" ">> }
KeywordPrefixes == { <<>>, <<"x",",","\n">> }
KeywordLabels ==
    { <<>>,
      <<"*","*","K","e","y","w","o","r","d","s",":","*","*">>,
      <<"*","*","K","E","Y","W","O","R","D","S",":","*","*">> }
KeywordGaps == { <<>>, <<" ">>, <<"\n">> }
KeywordTails == { <<>>, <<"\n","y",",","z">> }

KeywordTexts ==
    { pre \o lab \o gap \o Join(fields, <<",">>) \o tail :
        pre \in KeywordPrefixes, lab \in KeywordLabels, gap \in KeywordGaps,
        fields \in SeqsUpTo(KeywordFields, MaxFields), tail \in KeywordTails }

InitKeywords ==
    /\ pc = "call"
    /\ call \in {[op |-> "extract_keywords_from_abstract", text |-> t] : t \in KeywordTexts}
    /\ ret = None
    /\ locals = NoLocals
    /\ fs = NoFiles

ExtractKeywords ==
    /\ pc = "call"
    /\ call.op = "extract_keywords_from_abstract"
    /\ ret' = extract_keywords_from_abstract(call.text)
    /\ locals' = [match |-> KeywordsGroup(call.text)]
    /\ pc' = "done"
    /\ UNCHANGED <<call, fs>>

NextKeywords == ExtractKeywords

SpecKeywords == InitKeywords /\ [][NextKeywords]_vars

KeywordsDone == pc = "done" /\ call.op = "extract_keywords_from_abstract"

NonEmpty(x) == x # <<>>

\* the tokens the claim describes: what follows the first label on its line,
\* split on commas, each trimmed, the empty ones left out
LabelledTokens(text) ==
    LET labels == {p \in 0..Len(text) : LabelAt(text, p)}
    IN  IF labels = {} THEN <<>>
        ELSE LET q == Min(labels) + Len(KeywordsLabel)
                 fields == SplitOn(Slice(text, q, LineEnd(text, q)), ",")
             IN  SelectSeq([i \in 1..Len(fields) |-> Strip(fields[i])], NonEmpty)

\* C5: the result is the sequence of trimmed, non-empty comma-separated
\* tokens following the Keywords label on its line, in order; it is empty
\* for a text without the label.
C5_NonEmptyTokens == KeywordsDone => ret = LabelledTokens(call.text)

\* ------------------------------------------------------------------------
\* Abstract extractor: inputs, specification and claim
\* ------------------------------------------------------------------------
AbstractPieces ==
    { AbstractMarker, <<"a">>, <<"\n">>, <<"#","#"," ">>, <<"#"," ">>,
      <<"#","#","#"," ">>, <<"-","-","-">> }

AbstractTexts == {Flatten(ps) : ps \in SeqsUpTo(AbstractPieces, MaxPieces)}

InitAbstract ==
    /\ pc = "call"
    /\ call \in {[op |-> "extract_abstract", text |-> t] : t \in AbstractTexts}
    /\ ret = None
    /\ locals = NoLocals
    /\ fs = NoFiles

ExtractAbstract ==
    /\ pc = "call"
    /\ call.op = "extract_abstract"
    /\ ret' = extract_abstract(call.text)
    /\ locals' = [match |-> AbstractGroup(call.text)]
    /\ pc' = "done"
    /\ UNCHANGED <<call, fs>>

NextAbstract == ExtractAbstract

SpecAbstract == InitAbstract /\ [][NextAbstract]_vars

AbstractDone == pc = "done" /\ call.op = "extract_abstract"

\* offsets just after a heading line titled exactly Abstract (any level 1..6)
\* and the blank line that follows it
AbstractBodies(text) ==
    { b \in 0..Len(text) :
        \E p \in 0..Len(text), k \in 1..6 :
          /\ AtLineStart(text, p)
          /\ p < Len(text)
          /\ RunLength(text, p, {"#"}) = k
          /\ StartsWithAt(text, SubSeq(AbstractMarker, 3, Len(AbstractMarker)), p + k)
          /\ b = p + k + Len(AbstractMarker) - 2 }

\* line starts carrying a heading marker of any level or a horizontal rule
AnyLevelStops(text) ==
    { q \in 0..(Len(text) - 1) :
        /\ AtLineStart(text, q)
        /\ \/ StartsWithAt(text, <<"-","-","-">>, q)
           \/ /\ RunLength(text, q, {"#"}) \in 1..6
              /\ RunLength(text, q + RunLength(text, q, {"#"}), Whitespace) >= 1 }

\* C10 as stated: the result is the trimmed text after an Abstract heading and
\* its blank line up to the next heading marker of any level, a horizontal
\* rule or the end of the document; it is empty without such a heading.
C10_AnyHeadingEnds ==
    AbstractDone =>
        LET text == call.text
            bodies == AbstractBodies(text)
        IN  IF bodies = {} THEN ret = <<>>
            ELSE LET b == Min(bodies)
                     stops == {q \in AnyLevelStops(text) : q >= b} \cup {Len(text)}
                 IN  ret = Strip(Slice(text, b, Min(stops)))

\* C10 amended: the result is the trimmed text g that follows the first
\* "## Abstract" + blank line having a character after it; g is not empty, it
\* ends where a newline followed by "## " or by "---" begins or at the end of
\* the document, and at no earlier place after its first character; markers
\* of other levels do not end it.  Without such a marker the result is empty.
C10_Level2Ends ==
    AbstractDone =>
        LET text == call.text
            Marked(p) == StartsWithAt(text, AbstractMarker, p)
                         /\ p + Len(AbstractMarker) < Len(text)
            Ends(q) == \/ q = Len(text)
                       \/ StartsWithAt(text, <<"\n","#","#"," ">>, q)
                       \/ StartsWithAt(text, <<"\n","-","-","-">>, q)
        IN  IF \A p \in 0..Len(text) : ~Marked(p)
            THEN ret = <<>> /\ locals.match = None
            ELSE /\ locals.match # None
                 /\ ret = Strip(locals.match[1])
                 /\ LET g == locals.match[1]
                    IN  \E p \in 0..Len(text) :
                          LET b == p + Len(AbstractMarker)
                          IN  /\ Marked(p)
                              /\ \A r \in 0..(p - 1) : ~Marked(r)
                              /\ Len(g) >= 1
                              /\ g = Slice(text, b, b + Len(g))
                              /\ Ends(b + Len(g))
                              /\ \A q \in (b + 1)..(b + Len(g) - 1) : ~Ends(q)

\* an abstract that keeps a line starting with a level-1 or level-3 marker and
\* is cut at a level-2 marker or a rule before the end of the document
C10_Witness ==
    /\ AbstractDone
    /\ locals.match # None
    /\ \E p \in 0..Len(call.text) :
         LET b == p + Len(AbstractMarker)
             e == b + Len(locals.match[1])
         IN  /\ StartsWithAt(call.text, AbstractMarker, p)
             /\ e < Len(call.text)
             /\ \E q \in b..(e - 1) :
                  /\ AtLineStart(call.text, q)
                  /\ \/ StartsWithAt(call.text, <<"#"," ">>, q)
                     \/ StartsWithAt(call.text, <<"#","#","#"," ">>, q)
    /\ Contains(ret, <<"#">>)

\* ------------------------------------------------------------------------
\* summarizer.extract_key_points
\* ------------------------------------------------------------------------
key_indicators ==
    << <<"w","e"," ","p","r","e","s","e","n","t">>,
       <<"w","e"," ","p","r","o","p","o","s","e">>,
       <<"w","e"," ","d","e","m","o","n","s","t","r","a","t","e">>,
       <<"w","e"," ","s","h","o","w">>,
       <<"o","u","r"," ","c","o","n","t","r","i","b","u","t","i","o","n","s">>,
       <<"i","n"," ","t","h","i","s"," ","p","a","p","e","r">>,
       <<"t","h","i","s"," ","p","a","p","e","r">>,
       <<"r","e","m","a","r","k","a","b","l","y">>,
       <<"i","m","p","o","r","t","a","n","t","l","y">>,
       <<"s","i","g","n","i","f","i","c","a","n","t","l","y">>,
       <<"c","o","n","v","e","r","g","e","n","t"," ","e","v","o","l","u","t","i","o","n">>,
       <<"v","a","l","i","d","a","t","e","s">>,
       <<"e","v","i","d","e","n","c","e">> >>

SentenceEnders == {".", "!", "?"}

\* re.split(r"[.!?]\s+", text): the pieces between the leftmost matches
RECURSIVE SplitSentences(_, _)
SplitSentences(text, from) ==
    LET cands == {p \in from..(Len(text) - 2) :
                    At(text, p) \in SentenceEnders /\ At(text, p + 1) \in Whitespace}
    IN  IF cands = {} THEN <<Slice(text, from, Len(text))>>
        ELSE LET p == Min(cands)
                 e == p + 1 + RunLength(text, p + 1, Whitespace)
             IN  <<Slice(text, from, p)>> \o SplitSentences(text, e)

\* the loop over key_indicators: score += 2 when the indicator is present
RECURSIVE IndicatorScore(_, _)
IndicatorScore(sentence_lower, i) ==
    IF i > Len(key_indicators) THEN 0
    ELSE (IF Contains(sentence_lower, key_indicators[i]) THEN 2 ELSE 0)
         + IndicatorScore(sentence_lower, i + 1)

\* LengthBonus with the lower limit included
LengthBonusInclusive(sentence) ==
    IF Len(sentence) >= 50 /\ Len(sentence) < 300 THEN 1 ELSE 0

\* if len(sentence) > 50 and len(sentence) < 300: score += 1
LengthBonus(sentence) ==
    IF Len(sentence) > 50 /\ Len(sentence) < 300 THEN 1 ELSE 0

\* the value of score at line 123 for one sentence
SentenceScore(sentence) == IndicatorScore(Lower(sentence), 1) + LengthBonus(sentence)

\* scored_sentences before the sort: (score, sentence.strip()) where score > 0
RECURSIVE ScoredFrom(_, _)
ScoredFrom(sentences, i) ==
    IF i > Len(sentences) THEN <<>>
    ELSE LET score == SentenceScore(sentences[i])
         IN  (IF score > 0 THEN << <<score, Strip(sentences[i])>> >> ELSE <<>>)
             \o ScoredFrom(sentences, i + 1)

\* InsertByScore that puts an item before the items of equal score
InsertBeforeEqual(sorted, x) ==
    LET k == Cardinality({i \in 1..Len(sorted) : sorted[i][1] > x[1]})
    IN  SubSeq(sorted, 1, k) \o <<x>> \o SubSeq(sorted, k + 1, Len(sorted))

\* one step of a stable descending sort on the key x[0]: the item goes after
\* every item whose score is greater or equal
InsertByScore(sorted, x) ==
    LET k == Cardinality({i \in 1..Len(sorted) : sorted[i][1] >= x[1]})
    IN  SubSeq(sorted, 1, k) \o <<x>> \o SubSeq(sorted, k + 1, Len(sorted))

\* scored_sentences.sort(reverse=True, key=lambda x: x[0]) on the first n items
RECURSIVE SortByScore(_, _)
SortByScore(items, n) ==
    IF n = 0 THEN <<>> ELSE InsertByScore(SortByScore(items, n - 1), items[n])

\* scored_sentences after the sort
scored_sentences_of(text) ==
    LET scored == ScoredFrom(SplitSentences(text, 0), 1)
    IN  SortByScore(scored, Len(scored))

\* [sent for score, sent in scored_sentences[:num_points]], num_points >= 0
extract_key_points(text, num_points) ==
    LET sorted == scored_sentences_of(text)
        n == IF num_points < Len(sorted) THEN num_points ELSE Len(sorted)
    IN  [i \in 1..n |-> sorted[i][2]]

\* ------------------------------------------------------------------------
\* Key point scorer: inputs, specification and claims
\* ------------------------------------------------------------------------
Filler(n) == [i \in 1..n |-> "x"]

KeyPointUnits ==
    { <<"o","k">>,
      <<"e","v","i","d","e","n","c","e">>,
      <<"W","e"," ","s","h","o","w"," ","E","v","i","d","e","n","c","e">>,
      Filler(51) }

\* what follows a unit: a sentence end, or a full stop with no space after it
KeyPointSeps == { <<"."," ">>, <<".">> }

KeyPointTexts ==
    { Flatten([i \in 1..Len(us) |-> us[i][1] \o us[i][2]]) :
        us \in SeqsUpTo(KeyPointUnits \X KeyPointSeps, MaxUnits) }

\* single units at the limits of the length test and with repeated or
\* overlapping indicators
BoundaryTexts ==
    { Filler(50), Filler(51), Filler(299), Filler(300),
      <<"e","v","i","d","e","n","c","e">> \o Filler(42),
      <<"e","v","i","d","e","n","c","e">> \o Filler(292),
      <<"i","n"," ","t","h","i","s"," ","p","a","p","e","r">>,
      <<"e","v","i","d","e","n","c","e"," ","e","v","i","d","e","n","c","e">> }

PointChoices == {0, 1, 2, 10}

KeyPointCalls ==
    { [op |-> "extract_key_points", text |-> t, num_points |-> n] :
        t \in KeyPointTexts, n \in PointChoices }
    \cup { [op |-> "extract_key_points", text |-> t, num_points |-> 10] : t \in BoundaryTexts }

InitKeyPoints ==
    /\ pc = "call"
    /\ call \in KeyPointCalls
    /\ ret = None
    /\ locals = NoLocals
    /\ fs = NoFiles

ExtractKeyPoints ==
    /\ pc = "call"
    /\ call.op = "extract_key_points"
    /\ ret' = extract_key_points(call.text, call.num_points)
    /\ LET sentences == SplitSentences(call.text, 0)
       IN  locals' = [sentences |-> sentences,
                      scores |-> [i \in 1..Len(sentences) |-> SentenceScore(sentences[i])]]
    /\ pc' = "done"
    /\ UNCHANGED <<call, fs>>

NextKeyPoints == ExtractKeyPoints

SpecKeyPoints == InitKeyPoints /\ [][NextKeyPoints]_vars

KeyPointsDone == pc = "done" /\ call.op = "extract_key_points"

\* the indicators present in a unit, and every place where one starts
PresentIndicators(unit) ==
    LET low == Lower(unit)
    IN  {k \in 1..Len(key_indicators) : Contains(low, key_indicators[k])}
IndicatorOccurrences(unit) ==
    LET low == Lower(unit)
    IN  {kp \in (1..Len(key_indicators)) \X (0..(Len(unit) - 1)) :
            low[kp[2] + 1] = key_indicators[kp[1]][1]
            /\ StartsWithAt(low, key_indicators[kp[1]], kp[2])}
InLengthClass(unit) == Len(unit) > 50 /\ Len(unit) < 300

\* per unit of the finished call: how many distinct indicators are present,
\* and how many indicator occurrences there are
PresentCount == [i \in 1..Len(locals.sentences) |->
                    Cardinality(PresentIndicators(locals.sentences[i]))]
OccurrenceCount == [i \in 1..Len(locals.sentences) |->
                       Cardinality(IndicatorOccurrences(locals.sentences[i]))]

\* C6 as stated: a unit scores 2 for every occurrence of an indicator phrase,
\* repeated appearances counted each time, plus 1 when its length is strictly
\* between 50 and 300.
C6_OccurrenceScore ==
    KeyPointsDone =>
        \A i \in 1..Len(locals.sentences) :
            locals.scores[i] =
                2 * OccurrenceCount[i]
                + (IF InLengthClass(locals.sentences[i]) THEN 1 ELSE 0)

\* C6 amended: a unit scores 2 for every distinct indicator phrase present in
\* it, however often it appears, plus 1 when its length is strictly between 50
\* and 300; so a unit with exactly two indicators present outscores a unit of
\* the same length class with exactly one.
C6_PresenceScore ==
    KeyPointsDone =>
        LET present == PresentCount
        IN  /\ \A i \in 1..Len(locals.sentences) :
                  locals.scores[i] =
                      2 * present[i]
                      + (IF InLengthClass(locals.sentences[i]) THEN 1 ELSE 0)
            /\ \A i, j \in 1..Len(locals.sentences) :
                  ( /\ InLengthClass(locals.sentences[i]) = InLengthClass(locals.sentences[j])
                    /\ present[i] = 2
                    /\ present[j] = 1 )
                  => locals.scores[i] > locals.scores[j]

\* a text with a unit holding two distinct indicators and a unit holding one
\* indicator twice
C6_Witness ==
    /\ KeyPointsDone
    /\ \E i, j \in 1..Len(locals.sentences) :
         /\ PresentCount[i] = 2
         /\ PresentCount[j] = 1
         /\ OccurrenceCount[j] = 2
         /\ locals.scores[i] > locals.scores[j]

\* units with a positive score, and the place of one in the ranking: the
\* number of such units that score more, or the same and come earlier
PositiveUnits == {i \in 1..Len(locals.sentences) : locals.scores[i] > 0}
Rank(i) ==
    Cardinality({j \in PositiveUnits :
                   \/ locals.scores[j] > locals.scores[i]
                   \/ locals.scores[j] = locals.scores[i] /\ j < i})

\* C7: the result holds at most num_points units, all of positive score, by
\* score descending with equal scores in document order, and no discarded
\* positive unit outranks a returned one: the k-th result is the unit of
\* rank k.
C7_StableTopN ==
    KeyPointsDone =>
        LET n == IF call.num_points < Cardinality(PositiveUnits)
                 THEN call.num_points ELSE Cardinality(PositiveUnits)
        IN  /\ Len(ret) = n
            /\ Len(ret) <= call.num_points
            /\ \A k \in 1..n :
                  \E i \in PositiveUnits :
                     /\ Rank(i) = k - 1
                     /\ ret[k] = Strip(locals.sentences[i])
                     /\ \A j \in PositiveUnits :
                           Rank(j) >= n => locals.scores[j] <= locals.scores[i]

\* a result cut short by num_points, with a tie between different units and a
\* later unit ranked above an earlier one
C7_Witness ==
    /\ KeyPointsDone
    /\ Len(ret) = call.num_points
    /\ Cardinality(PositiveUnits) > call.num_points
    /\ \E i, j, k \in PositiveUnits :
         /\ i < j
         /\ locals.scores[i] = locals.scores[j]
         /\ Strip(locals.sentences[i]) # Strip(locals.sentences[j])
         /\ Rank(i) < call.num_points
         /\ i < k
         /\ locals.scores[k] > locals.scores[i]

\* ------------------------------------------------------------------------
\* summarizer.generate_summary
\* ------------------------------------------------------------------------
\* seq[:n]
Take(seq, n) == SubSeq(seq, 1, IF n < Len(seq) THEN n ELSE Len(seq))

\* "\n".join(f"- {x}" for x in items)
BulletList(items) == Join([i \in 1..Len(items) |-> <<"-"," ">> \o items[i]], <<"\n">>)

\* "KEYWORDS: " + ", ".join(keywords)
KeywordsBlock(keywords) ==
    <<"K","E","Y","W","O","R","D","S",":"," ">> \o Join(keywords, <<","," ">>)

\* AbstractBlock without the [:500]
AbstractBlockWhole(abstract) ==
    <<"\n","A","B","S","T","R","A","C","T",":","\n">> \o abstract \o <<".",".",".">>

\* "\nABSTRACT:\n" + abstract[:500] + "..."
AbstractBlock(abstract) ==
    <<"\n","A","B","S","T","R","A","C","T",":","\n">> \o Take(abstract, 500) \o <<".",".",".">>

\* "\nSECTIONS:\n" + "\n".join(f"- {h}" for h in headers[:15])
SectionsBlock(headers) ==
    <<"\n","S","E","C","T","I","O","N","S",":","\n">> \o BulletList(Take(headers, 15))

\* "\nKEY FINDINGS:\n" + "\n".join(f"- {p}" for p in key_points)
KeyFindingsBlock(key_points) ==
    <<"\n","K","E","Y"," ","F","I","N","D","I","N","G","S",":","\n">> \o BulletList(key_points)

\* the locals of the structured branch
SummaryLocals(content) ==
    LET keywords == extract_keywords_from_abstract(content)
        abstract == extract_abstract(content)
        headers == extract_section_headers(content)
        key_points == extract_key_points(content, 8)
    IN  [keywords |-> keywords, abstract |-> abstract, headers |-> headers,
         key_points |-> key_points,
         parts |-> (IF keywords # <<>> THEN <<KeywordsBlock(keywords)>> ELSE <<>>)
                   \o (IF abstract # <<>> THEN <<AbstractBlock(abstract)>> ELSE <<>>)
                   \o (IF headers # <<>> THEN <<SectionsBlock(headers)>> ELSE <<>>)
                   \o (IF key_points # <<>> THEN <<KeyFindingsBlock(key_points)>> ELSE <<>>)]

generate_summary(content, style) ==
    IF style = "structured"
    THEN LET parts == SummaryLocals(content).parts
         IN  IF parts # <<>> THEN Join(parts, <<"\n">>) ELSE Take(content, 1000)
    ELSE Take(content, 1000)

\* ------------------------------------------------------------------------
\* Summary composer: inputs, specification and claim
\* ------------------------------------------------------------------------
KeywordsLine == <<"*","*","K","e","y","w","o","r","d","s",":","*","*"," ","a",",","b","\n">>
AbstractPart == AbstractMarker \o <<"a","b","\n">>
HeaderLine == <<"#"," ","H","\n">>
FindingSentence == <<"e","v","i","d","e","n","c","e","."," ">>
RuleLine == <<"-","-","-","\n">>

SummaryPieces ==
    { KeywordsLine, AbstractPart, <<"x">> \o AbstractPart, HeaderLine,
      FindingSentence, RuleLine }

Repeat(piece, n) == Flatten([i \in 1..n |-> piece])

\* documents that exceed each limit of the composer: 500 characters of
\* abstract, 15 headers, 8 key points, 1000 characters of raw text
LongDocs ==
    { AbstractMarker \o [i \in 1..501 |-> "y"],
      Repeat(HeaderLine, 16),
      Repeat(FindingSentence, 9),
      Filler(1001),
      KeywordsLine \o Repeat(HeaderLine, 16) \o AbstractMarker
        \o [i \in 1..501 |-> "y"] \o <<"\n">> \o RuleLine \o Repeat(FindingSentence, 9) }

SummaryDocs ==
    {Flatten(ps) : ps \in SeqsUpTo(SummaryPieces, MaxBlocks)} \cup LongDocs

SummaryStyles == {"structured", "extractive", "abstract"}

InitSummary ==
    /\ pc = "call"
    /\ call \in {[op |-> "generate_summary", content |-> d, style |-> st] :
                   d \in SummaryDocs, st \in SummaryStyles}
    /\ ret = None
    /\ locals = NoLocals
    /\ fs = NoFiles

GenerateSummary ==
    /\ pc = "call"
    /\ call.op = "generate_summary"
    /\ ret' = generate_summary(call.content, call.style)
    /\ locals' = IF call.style = "structured" THEN SummaryLocals(call.content) ELSE NoLocals
    /\ pc' = "done"
    /\ UNCHANGED <<call, fs>>

NextSummary == GenerateSummary

SpecSummary == InitSummary /\ [][NextSummary]_vars

SummaryDone == pc = "done" /\ call.op = "generate_summary"

First(seq, n) == [i \in 1..(IF n < Len(seq) THEN n ELSE Len(seq)) |-> seq[i]]

Bullets(items) == Join([i \in 1..Len(items) |-> <<"-"," ">> \o items[i]], <<"\n">>)

\* the four blocks in their fixed order, each with the extractor result that
\* must be non-empty for the block to appear
SummaryBlocks ==
    << [given |-> locals.keywords,
        text |-> <<"K","E","Y","W","O","R","D","S",":"," ">>
                 \o Join(locals.keywords, <<","," ">>)],
       [given |-> locals.abstract,
        text |-> <<"\n","A","B","S","T","R","A","C","T",":","\n">>
                 \o First(locals.abstract, 500) \o <<".",".",".">>],
       [given |-> locals.headers,
        text |-> <<"\n","S","E","C","T","I","O","N","S",":","\n">>
                 \o Bullets(First(locals.headers, 15))],
       [given |-> locals.key_points,
        text |-> <<"\n","K","E","Y"," ","F","I","N","D","I","N","G","S",":","\n">>
                 \o Bullets(locals.key_points)] >>

IsGiven(block) == block.given # <<>>

TOKEN_THRESHOLD == 10000

\* a path on the filesystem: absent, present but not readable as UTF-8 text,
\* or a text file; tokens is what estimate_tokens returns for its content
MissingFile == [kind |-> "missing", content |-> <<>>, tokens |-> 0]
UnreadableFile == [kind |-> "unreadable", content |-> <<>>, tokens |-> 0]
TextFile(content, tokens) == [kind |-> "file", content |-> content, tokens |-> tokens]

\* str(path.absolute()) with the working directory /w
Absolute(file_path) == <<"/","w","/">> \o file_path

\* NotFoundError with the path left out of the message
NotFoundErrorNoPath(file_path) ==
    [error |-> <<"F","i","l","e"," ","n","o","t"," ","f","o","u","n","d">>,
     type |-> "error"]

\* {"error": f"File not found: {file_path}", "type": "error"}
NotFoundError(file_path) ==
    [error |-> <<"F","i","l","e"," ","n","o","t"," ","f","o","u","n","d",":"," ">> \o file_path,
     type |-> "error"]

\* {"error": f"Error reading file: {str(e)}", "type": "error"}
ReadError ==
    [error |-> <<"E","r","r","o","r"," ","r","e","a","d","i","n","g"," ","f","i","l","e",":"," ","e">>,
     type |-> "error"]

\* ShouldSummarize with >= for >
ShouldSummarizeInclusive(mode, token_count) ==
    mode = "summary" \/ (mode = "auto" /\ token_count >= TOKEN_THRESHOLD)

\* should_summarize
ShouldSummarize(mode, token_count) ==
    mode = "summary" \/ (mode = "auto" /\ token_count > TOKEN_THRESHOLD)

\* the summary response; the fields computed from estimate_tokens(summary)
\* (summary_tokens, reduction_factor, completeness) are left out
SummaryResponse(file_path, content, token_count, summary_style) ==
    LET sections == extract_section_headers(content)
    IN  [content |-> generate_summary(content, summary_style),
         type |-> "summary",
         style |-> summary_style,
         original_tokens |-> token_count,
         sections |-> [count |-> Len(sections), headers |-> Take(sections, 20),
                       note |-> "Use list_sections() for complete list"],
         included |-> [abstract |-> extract_abstract(content) # <<>>,
                       keywords |-> extract_keywords_from_abstract(content) # <<>>,
                       section_headers |-> sections # <<>>,
                       key_findings |-> TRUE],
         original |-> [path |-> Absolute(file_path), size_bytes |-> Len(content),
                       size_tokens |-> token_count]]

smart_read(files, file_path, mode, summary_style) ==
    LET file == files[file_path]
    IN  IF file.kind = "missing" THEN NotFoundError(file_path)
        ELSE IF file.kind = "unreadable" THEN ReadError
        ELSE IF ShouldSummarize(mode, file.tokens)
             THEN SummaryResponse(file_path, file.content, file.tokens, summary_style)
             ELSE [content |-> file.content, type |-> "full", tokens |-> file.tokens,
                   path |-> Absolute(file_path)]

read_section(files, file_path, section_heading) ==
    LET file == files[file_path]
    IN  IF file.kind = "missing" THEN NotFoundError(file_path)
        ELSE IF file.kind = "unreadable" THEN ReadError
        ELSE [content |-> <<"S","e","c","t","i","o","n"," ","'">> \o section_heading
                          \o <<"'"," ","e","x","t","r","a","c","t","i","o","n"," ","n","o","t",
                               " ","y","e","t"," ","i","m","p","l","e","m","e","n","t","e","d">>,
              type |-> "section",
              section |-> section_heading,
              note |-> "This feature will be implemented via speckit workflow"]

list_sections(files, file_path) ==
    LET file == files[file_path]
    IN  IF file.kind = "missing" THEN NotFoundError(file_path)
        ELSE IF file.kind = "unreadable" THEN ReadError
        ELSE LET headers == extract_section_headers(file.content)
             IN  [sections |-> headers, count |-> Len(headers), type |-> "toc",
                  path |-> Absolute(file_path),
                  note |-> "Use read_section(file_path, heading) to read specific section"]

\* --- the server as a state machine: one request at a time -------------
Paths == { <<"a",".","m","d">>, <<"b">> }

ServerDocs ==
    { <<"#"," ","a","\n","#","#","#","#"," ","x","\n">>,
      <<"b">>,
      KeywordsLine \o AbstractPart \o <<"#","#"," ","B"," ","\n">> \o FindingSentence }

TokenCounts == {0} \cup ((TOKEN_THRESHOLD - MaxExcess)..(TOKEN_THRESHOLD + MaxExcess))

FileStates ==
    {MissingFile, UnreadableFile} \cup {TextFile(d, n) : d \in ServerDocs, n \in TokenCounts}

Modes == {"auto", "summary", "full", "other"}
ServerStyles == {"structured", "extractive"}
ServerHeadings == { <<"a">> }

NoCall == [op |-> "none"]

InitServer ==
    /\ pc = "idle"
    /\ call = NoCall
    /\ ret = None
    /\ locals = NoLocals
    /\ fs \in [Paths -> FileStates]

SmartRead ==
    /\ pc = "idle"
    /\ \E file_path \in Paths, mode \in Modes, summary_style \in ServerStyles :
         /\ call' = [op |-> "smart_read", file_path |-> file_path, mode |-> mode,
                     summary_style |-> summary_style]
         /\ ret' = smart_read(fs, file_path, mode, summary_style)
    /\ pc' = "responded"
    /\ UNCHANGED <<locals, fs>>

ReadSection ==
    /\ pc = "idle"
    /\ \E file_path \in Paths, section_heading \in ServerHeadings :
         /\ call' = [op |-> "read_section", file_path |-> file_path,
                     section_heading |-> section_heading]
         /\ ret' = read_section(fs, file_path, section_heading)
    /\ pc' = "responded"
    /\ UNCHANGED <<locals, fs>>

ListSections ==
    /\ pc = "idle"
    /\ \E file_path \in Paths :
         /\ call' = [op |-> "list_sections", file_path |-> file_path]
         /\ ret' = list_sections(fs, file_path)
    /\ pc' = "responded"
    /\ UNCHANGED <<locals, fs>>

\* the response goes back to the client and the server waits for a request
Deliver ==
    /\ pc = "responded"
    /\ pc' = "idle"
    /\ call' = NoCall
    /\ ret' = None
    /\ UNCHANGED <<locals, fs>>

NextServer == SmartRead \/ ReadSection \/ ListSections \/ Deliver

SpecServer == InitServer /\ [][NextServer]_vars

Responded(op) == pc = "responded" /\ call.op = op

\* C3: for a readable file smart_read answers with type "summary" exactly when
\* mode is "summary", or mode is "auto" and the token count is above 10000;
\* otherwise it answers with type "full" and the file content unchanged.
C3_SummaryDecision ==
    (Responded("smart_read") /\ fs[call.file_path].kind = "file") =>
        LET file == fs[call.file_path]
            summarize == \/ call.mode = "summary"
                         \/ call.mode = "auto" /\ file.tokens > 10000
        IN  /\ (ret.type = "summary") <=> summarize
            /\ ~summarize => (ret.type = "full" /\ ret.content = file.content)
            /\ ret.type \in {"summary", "full"}

\* mode "auto" on a file of exactly 10000 tokens gives the full content
C3_Witness ==
    /\ Responded("smart_read")
    /\ fs[call.file_path].kind = "file"
    /\ call.mode = "auto"
    /\ fs[call.file_path].tokens = 10000
    /\ ret.type = "full"
    /\ ret.content = fs[call.file_path].content

\* C4: each of the three operations, called with a path that does not exist,
\* answers with type "error" and a message that contains the path, whatever
\* the other arguments.
C4_MissingFileError ==
    (pc = "responded" /\ fs[call.file_path].kind = "missing") =>
        /\ call.op \in {"smart_read", "read_section", "list_sections"}
        /\ ret.type = "error"
        /\ Contains(ret.error, call.file_path)

\* read_section asked for a missing path while the other path exists
C4_Witness ==
    /\ Responded("read_section")
    /\ fs[call.file_path].kind = "missing"
    /\ \E other \in Paths : fs[other].kind = "file"
    /\ ret.type = "error"

\* the titles the claim describes: for every line that begins with 1 to 6 "#"
\* followed by a whitespace character, the rest of the line, trimmed
IsHeadingLine(line) ==
    LET k == RunLength(line, 0, {"#"})
    IN  k \in 1..6 /\ k < Len(line) /\ At(line, k) \in Whitespace
LineTitles(text) ==
    LET marked == SelectSeq(SplitOn(text, "\n"), IsHeadingLine)
    IN  [i \in 1..Len(marked) |->
            Strip(Slice(marked[i], RunLength(marked[i], 0, {"#"}), Len(marked[i])))]

\* C9: for a readable file list_sections returns, in document order, the
\* trimmed title of every line that begins with 1 to 6 "#" and a whitespace
\* character, and count is the number of such lines.
C9_AllHeadings ==
    (Responded("list_sections") /\ fs[call.file_path].kind = "file") =>
        /\ ret.type = "toc"
        /\ ret.sections = LineTitles(fs[call.file_path].content)
        /\ ret.count = Len(LineTitles(fs[call.file_path].content))

\* --- Section resolver claims -------------------------------------------
SectionDone == pc = "done" /\ call.op = "extract_section_content"

\* indices of the headings whose title contains the target, ignoring case
TargetHeadings ==
    {i \in 1..Len(locals.headings) :
        Contains(Lower(locals.headings[i].title), Lower(call.heading))}

\* offset of the first heading after i of level <= that of i, else end of text
Boundary(i) ==
    LET hs == locals.headings
        later == {j \in (i + 1)..Len(hs) : hs[j].hashes <= hs[i].hashes}
    IN  IF later = {} THEN Len(call.text) ELSE hs[Min(later)].start

\* C1 as stated: the content of a found section is exactly the text from the
\* heading's offset up to the offset of the next heading of level <= its own
\* (or the end of the document), nested deeper headings included.
C1_ExactSpan ==
    (SectionDone /\ TargetHeadings # {}) =>
        LET h == Min(TargetHeadings)
        IN  ret[1] = Some(Slice(call.text, locals.headings[h].start, Boundary(h)))

\* C1 amended: the content is that span with surrounding whitespace trimmed,
\* and every deeper heading before the boundary starts inside the content.
C1_TrimmedSpan ==
    (SectionDone /\ TargetHeadings # {}) =>
        LET hs == locals.headings
            h == Min(TargetHeadings)
            start == hs[h].start
        IN  /\ ret[1] = Some(Strip(Slice(call.text, start, Boundary(h))))
            /\ \A j \in (h + 1)..Len(hs) :
                   hs[j].start < Boundary(h) =>
                     /\ hs[j].hashes > hs[h].hashes
                     /\ hs[j].start - start < Len(ret[1][1])
                     /\ At(ret[1][1], hs[j].start - start) = "#"

\* a section with a nested deeper heading, closed by a later heading, whose
\* span ends in whitespace that the result does not carry
C1_Witness ==
    /\ SectionDone
    /\ TargetHeadings # {}
    /\ LET hs == locals.headings
           h == Min(TargetHeadings)
       IN  /\ \E j \in (h + 1)..Len(hs) : hs[j].start < Boundary(h)
           /\ Boundary(h) < Len(call.text)
           /\ Len(ret[1][1]) < Boundary(h) - hs[h].start

\* C2: the target resolves to the first heading, in document order, whose
\* title contains it ignoring case; with no such heading all four results
\* are None.
C2_FirstMatch ==
    SectionDone =>
        IF TargetHeadings = {}
        THEN ret = <<None, None, None, None>>
        ELSE LET first == locals.headings[Min(TargetHeadings)]
             IN  /\ ret[2] = Some(first.hashes)
                 /\ ret[3] = Some(CountNewlines(call.text, first.start) + 1)
                 /\ ret[1] # None
                 /\ StartsWithAt(call.text, ret[1][1], first.start)

\* two headings match and the first one matches only when case is ignored
C2_Witness ==
    /\ SectionDone
    /\ Cardinality(TargetHeadings) >= 2
    /\ ~Contains(locals.headings[Min(TargetHeadings)].title, call.heading)
    /\ ret[1] # None

====
